---- MODULE Spec2Model ----
(***************************************************************************)
(* Forest_Fire_Code_GEE.js: the monthly CO / NO2 time series (parts 1, 2)  *)
(* and the fire-period map composites (parts 3 to 7).                      *)
(*                                                                         *)
(* The script is a declarative composition of Earth Engine primitives.     *)
(* The primitives are modelled by their documented behaviour:              *)
(*   - filterDate(a, b) keeps the images with a <= date < b;               *)
(*   - the mean / median / max of an empty collection is an image with no  *)
(*     bands, and Image.select of a name that matches no band is an error  *)
(*     that fails the whole expression it is part of;                      *)
(*   - reduceRegion yields null for a band with no unmasked pixel;         *)
(*   - List.map keeps the order of its input list;                         *)
(*   - Dictionary.values() lists the values in the natural (code point)    *)
(*     order of the keys.                                                  *)
(* Strings are sequences of one-character strings, dates are <<y, m, d>>.  *)
(***************************************************************************)
EXTENDS Integers, Sequences, FiniteSets, TLC

\* ------------------------------------------------------------------ bounds
\* at most this many (pollutant, month) pairs of the backend lack usable data
MaxMissing == 1
\* a per-bucket reduction may complete at most this far ahead of (counting
\* itself) the earliest bucket that is still pending
MaxOutOfOrder == 2

\* ----------------------------------------------------------------- strings
Digits == <<"0", "1", "2", "3", "4", "5", "6", "7", "8", "9">>

DigitVal(c) == CHOOSE d \in 0..9 : Digits[d + 1] = c

IsDigit(c) == \E d \in 0..9 : Digits[d + 1] = c

\* code point order of the characters that occur in labels and dates
Ord(c) == IF c = "-" THEN 45 ELSE 48 + DigitVal(c)

RECURSIVE FormatD(_)
\* Number.format('%d')
FormatD(n) == IF n < 10 THEN <<Digits[n + 1]>>
              ELSE FormatD(n \div 10) \o <<Digits[(n % 10) + 1]>>

Format02d_NoPad(n) == FormatD(n)

\* Number.format('%02d')
Format02d(n) == IF n < 10 THEN <<"0">> \o FormatD(n) ELSE FormatD(n)

RECURSIVE ParseNat(_)
ParseNat(s) == IF s = <<>> THEN 0
               ELSE 10 * ParseNat(SubSeq(s, 1, Len(s) - 1)) + DigitVal(s[Len(s)])

RECURSIVE LexLess(_, _)
\* natural ordering of string keys
LexLess(a, b) ==
    IF a = <<>> THEN b # <<>>
    ELSE IF b = <<>> THEN FALSE
    ELSE IF a[1] # b[1] THEN Ord(a[1]) < Ord(b[1])
    ELSE LexLess(Tail(a), Tail(b))

\* ------------------------------------------------------------------- dates
\* ee.Date of a 'YYYY-MM-DD' string
ParseDate(s) == <<ParseNat(SubSeq(s, 1, 4)), ParseNat(SubSeq(s, 6, 7)),
                  ParseNat(SubSeq(s, 9, 10))>>

\* ee.Date.fromYMD
fromYMD(y, m, d) == <<y, m, d>>

DateLT(a, b) ==
    \/ a[1] < b[1]
    \/ a[1] = b[1] /\ a[2] < b[2]
    \/ a[1] = b[1] /\ a[2] = b[2] /\ a[3] < b[3]

DateLE(a, b) == a = b \/ DateLT(a, b)

IsLeap(y) == (y % 4 = 0 /\ y % 100 # 0) \/ y % 400 = 0

DaysInMonth(y, m) ==
    IF m = 2 THEN (IF IsLeap(y) THEN 29 ELSE 28)
    ELSE IF m \in {4, 6, 9, 11} THEN 30 ELSE 31

Min(a, b) == IF a < b THEN a ELSE b

advance_TwoMonths(d) ==
    IF d[2] >= 11 THEN <<d[1] + 1, d[2] - 10, d[3]>> ELSE <<d[1], d[2] + 2, d[3]>>

\* Date.advance(1, 'month'): next calendar month, day clamped to its length
advance(d) ==
    LET y == IF d[2] = 12 THEN d[1] + 1 ELSE d[1]
        m == IF d[2] = 12 THEN 1 ELSE d[2] + 1
    IN <<y, m, Min(d[3], DaysInMonth(y, m))>>

\* ImageCollection.filterDate(start, end): start inclusive, end exclusive
filterDate(images, start, end) ==
    {img \in images : DateLE(start, img.date) /\ DateLT(img.date, end)}

\* ------------------------------------------------------------ configuration
fireStart == <<"2", "0", "1", "9", "-", "1", "2", "-", "1", "5">>
fireEnd == <<"2", "0", "2", "0", "-", "0", "1", "-", "1", "0">>

timeSeriesStart == <<"2", "0", "1", "9", "-", "0", "1", "-", "0", "1">>

timeSeriesEnd_2020 == <<"2", "0", "2", "0", "-", "1", "2", "-", "3", "1">>

timeSeriesEnd == <<"2", "0", "2", "4", "-", "1", "2", "-", "3", "1">>

months_23 == 0..22

\* ee.List.sequence(0, 23)
months == 0..23

StartYear == 2019

year_NoFloor(month) == ((month + 6) \div 12) + StartYear

\* ee.Number(month).divide(12).floor().add(2019)
year(month) == (month \div 12) + StartYear

\* ee.Number(month).mod(12).add(1)
monthOfYear(month) == (month % 12) + 1

monthStart(month) == fromYMD(year(month), monthOfYear(month), 1)

monthEnd(month) == advance(monthStart(month))

\* year.format('%d') . '-' . monthOfYear.format('%02d')
monthString(month) ==
    FormatD(year(month)) \o <<"-">> \o Format02d(monthOfYear(month))

\* ------------------------------------------------------------ backend data
Pollutants == {"co", "no2"}

Null == [isNull |-> TRUE, num |-> 0, den |-> 1]

Rat(n, d) == [isNull |-> FALSE, num |-> n, den |-> d]

Base(p) == IF p = "co" THEN 10 ELSE 110

GapKinds == {"empty", "masked"}

\* the months a gap may fall on: the first, the two around the turn of the
\* year and the last
GapMonths == {0, 11, 12, 23}

RECURSIVE GapsUpTo(_)
GapsUpTo(n) ==
    IF n = 0 THEN {{}}
    ELSE LET smaller == GapsUpTo(n - 1)
         IN smaller \cup
            {g \cup {x} : g \in smaller,
                          x \in Pollutants \X GapMonths \X GapKinds}

\* the sets of at most MaxMissing gaps, at most one gap a month and pollutant
Gaps == {g \in GapsUpTo(MaxMissing) :
            \A a, b \in g : (a[1] = b[1] /\ a[2] = b[2]) => a = b}

\* The archive of one pollutant: two overpasses a month (first and last day),
\* one the day before and one the day after the 24 months, and one overpass
\* whose footprint misses the region.  A gap removes a month's overpasses
\* ("empty") or leaves them without a valid pixel over the region ("masked").
Archive(p, g) ==
    LET pix(m, v) == IF <<p, m, "masked">> \in g THEN Null ELSE Rat(v, 1)
        first == {[date |-> monthStart(m), aoi |-> TRUE,
                   pixel |-> pix(m, Base(p) + 2 * m)] :
                      m \in {k \in 0..23 : <<p, k, "empty">> \notin g}}
        last  == {[date |-> <<year(m), monthOfYear(m),
                              DaysInMonth(year(m), monthOfYear(m))>>,
                   aoi |-> TRUE, pixel |-> pix(m, Base(p) + 2 * m + 4)] :
                      m \in {k \in 0..23 : <<p, k, "empty">> \notin g}}
    IN first \cup last \cup
       {[date |-> <<2018, 12, 31>>, aoi |-> TRUE, pixel |-> Rat(900, 1)],
        [date |-> <<2021, 1, 1>>, aoi |-> TRUE, pixel |-> Rat(901, 1)],
        [date |-> <<2019, 6, 15>>, aoi |-> FALSE, pixel |-> Rat(999, 1)]}

\* ------------------------------------------------------------------- state
VARIABLES
    gaps,               \* the backend's data gaps (fixed during a run)
    backend,            \* [Pollutants -> set of images]: the OFFL archives
    pc,                 \* [Pollutants -> position of the series evaluation]
    collection,         \* co_collection / no2_collection
    monthly,            \* monthlyCO / monthlyNO2: completed elements by index
    buckets,            \* monthStart / monthEnd / filtered of each element
    outOfOrder,         \* an element completed before an earlier one
    monthLabels,        \* the list monthLabels (<<>> until evaluated)
    dict,               \* monthlyCO_dict / monthlyNO2_dict
    features,           \* co_features / no2_features
    featureCollection   \* co_featureCollection / no2_featureCollection

seriesVars == <<gaps, backend, pc, collection, monthly, buckets, outOfOrder,
                monthLabels, dict, features, featureCollection>>

VARIABLES
    fire,               \* [ScalarCollections -> set of images]: the archives
    l8,                 \* the LANDSAT/LC08/C02/T1_L2 archive
    cpc,                \* position in parts 3 to 7 of the script
    composites,         \* the temporal composites built, by variable name
    landsatFire,        \* the filtered Landsat collection
    landsatFireScaled,  \* landsatFire.map(applyScaleFactors)
    layers,             \* Map.addLayer calls, in order
    printed             \* print('Landsat 8 Image Count:', ...)

compositeVars == <<fire, l8, cpc, composites, landsatFire, landsatFireScaled,
                   layers, printed>>

vars == <<seriesVars, compositeVars>>

Empty == [x \in {} |-> 0]

NoCollection == [start |-> <<0, 0, 0>>, end |-> <<0, 0, 0>>, images |-> {}]

\* the composites part of the script is not run
CompositeIdle ==
    /\ fire = Empty
    /\ l8 = {}
    /\ cpc = "idle"
    /\ composites = Empty
    /\ landsatFire = {}
    /\ landsatFireScaled = {}
    /\ layers = <<>>
    /\ printed = <<>>

InitSeries ==
    /\ gaps \in Gaps
    /\ backend = [p \in Pollutants |-> Archive(p, gaps)]
    /\ pc = [p \in Pollutants |-> "start"]
    /\ collection = [p \in Pollutants |-> NoCollection]
    /\ monthly = [p \in Pollutants |-> Empty]
    /\ buckets = [p \in Pollutants |-> Empty]
    /\ outOfOrder = [p \in Pollutants |-> FALSE]
    /\ monthLabels = <<>>
    /\ dict = [p \in Pollutants |-> Empty]
    /\ features = [p \in Pollutants |-> Empty]
    /\ featureCollection = [p \in Pollutants |-> <<>>]
    /\ CompositeIdle

\* the CO chart is printed before the NO2 chart
Turn(p) == p = "co" \/ pc["co"] \in {"done", "error"}

\* ------------------------------------------------------------- primitives
\* ImageCollection.filterBounds(aoi)
filterBounds(images) == {img \in images : img.aoi}

RECURSIVE SumNum(_)
SumNum(S) == IF S = {} THEN 0
             ELSE LET x == CHOOSE y \in S : TRUE
                  IN x.pixel.num + SumNum(S \ {x})

\* filtered.mean().select(band).reduceRegion(mean).get(band) of a non-empty
\* collection: the mean over the overpasses with a valid pixel, null if none
reduceRegion(images) ==
    LET valid == {img \in images : ~img.pixel.isNull}
    IN IF valid = {} THEN Null ELSE Rat(SumNum(valid), Cardinality(valid))

\* ------------------------------------------------------------- list helpers
RECURSIVE SortedKeys(_)
\* the keys of a dictionary in their natural order
SortedKeys(S) ==
    IF S = {} THEN <<>>
    ELSE LET k == CHOOSE x \in S : \A y \in S \ {x} : LexLess(x, y)
         IN <<k>> \o SortedKeys(S \ {k})

\* the list a List.map over `months` yields: element i at position i + 1
AsList(f) == [j \in 1..Cardinality(DOMAIN f) |-> f[j - 1]]

\* ee.Dictionary.fromLists(keys, values): a later duplicate key wins
fromLists(keys, values) ==
    [k \in {keys[j] : j \in 1..Len(keys)} |->
        values[CHOOSE j \in 1..Len(keys) :
                  /\ keys[j] = k
                  /\ \A h \in 1..Len(keys) : keys[h] = k => h <= j]]

\* Dictionary.values(): the values in the natural order of the keys
values(d) ==
    LET ks == SortedKeys(DOMAIN d)
    IN [j \in 1..Len(ks) |-> d[ks[j]]]

\* ee.Feature(null, {month: key, <co | no2>: ee.Number(value)})
Feature(p, key, value) == [month |-> key, prop |-> p, value |-> value]

\* -------------------------------------------------------- series: actions
\* ee.ImageCollection(co).filterBounds(aoi).filterDate(start, end)
LoadCollection(p) ==
    /\ pc[p] = "start"
    /\ Turn(p)
    /\ collection' = [collection EXCEPT ![p] =
          [start |-> ParseDate(timeSeriesStart),
           end |-> ParseDate(timeSeriesEnd),
           images |-> filterDate(filterBounds(backend[p]),
                                 ParseDate(timeSeriesStart),
                                 ParseDate(timeSeriesEnd))]]
    /\ pc' = [pc EXCEPT ![p] = "mapping"]
    /\ UNCHANGED <<gaps, backend, monthly, buckets, outOfOrder, monthLabels,
                   dict, features, featureCollection>>
    /\ UNCHANGED compositeVars

Pending(p) == months \ DOMAIN monthly[p]

\* one element of months.map(function(month) {...}) of monthlyCO / monthlyNO2.
\* The mean of an empty collection has no band: select fails the evaluation.
MonthlyReduce(p, month) ==
    /\ pc[p] = "mapping"
    /\ month \in Pending(p)
    /\ \A k \in Pending(p) : month < k + MaxOutOfOrder
    /\ LET filtered == filterDate(collection[p].images,
                                  monthStart(month), monthEnd(month))
       IN /\ buckets' = [buckets EXCEPT ![p] =
                 [k \in DOMAIN buckets[p] \cup {month} |->
                     IF k = month
                     THEN [start |-> monthStart(month), end |-> monthEnd(month),
                           filtered |-> filtered]
                     ELSE buckets[p][k]]]
          /\ IF filtered = {}
             THEN /\ pc' = [pc EXCEPT ![p] = "error"]
                  /\ UNCHANGED monthly
             ELSE /\ monthly' = [monthly EXCEPT ![p] =
                        [k \in DOMAIN monthly[p] \cup {month} |->
                            IF k = month THEN reduceRegion(filtered)
                            ELSE monthly[p][k]]]
                  /\ UNCHANGED pc
    /\ outOfOrder' = [outOfOrder EXCEPT ![p] =
                         @ \/ \E k \in Pending(p) : k < month]
    /\ UNCHANGED <<gaps, backend, collection, monthLabels, dict, features,
                   featureCollection>>
    /\ UNCHANGED compositeVars

\* months.map(function(month) {... return monthString;}), evaluated with
\* the first dictionary that needs it
BuildLabels ==
    /\ monthLabels = <<>>
    /\ \E p \in Pollutants : pc[p] = "mapping" /\ Pending(p) = {}
    /\ monthLabels' = AsList([month \in months |-> monthString(month)])
    /\ UNCHANGED <<gaps, backend, pc, collection, monthly, buckets,
                   outOfOrder, dict, features, featureCollection>>
    /\ UNCHANGED compositeVars

\* ee.Dictionary.fromLists(monthLabels, monthlyCO)
BuildDict(p) ==
    /\ pc[p] = "mapping"
    /\ Pending(p) = {}
    /\ monthLabels # <<>>
    /\ dict' = [dict EXCEPT ![p] = fromLists(monthLabels, AsList(monthly[p]))]
    /\ pc' = [pc EXCEPT ![p] = "dict"]
    /\ UNCHANGED <<gaps, backend, collection, monthly, buckets, outOfOrder,
                   monthLabels, features, featureCollection>>
    /\ UNCHANGED compositeVars

\* monthlyCO_dict.map(function(key, value) {... return feature;})
MapFeatures(p) ==
    /\ pc[p] = "dict"
    /\ features' = [features EXCEPT ![p] =
                       [k \in DOMAIN dict[p] |-> Feature(p, k, dict[p][k])]]
    /\ pc' = [pc EXCEPT ![p] = "features"]
    /\ UNCHANGED <<gaps, backend, collection, monthly, buckets, outOfOrder,
                   monthLabels, dict, featureCollection>>
    /\ UNCHANGED compositeVars

\* ee.FeatureCollection(co_features.values()), handed to the chart
BuildFeatureCollection(p) ==
    /\ pc[p] = "features"
    /\ featureCollection' = [featureCollection EXCEPT ![p] = values(features[p])]
    /\ pc' = [pc EXCEPT ![p] = "done"]
    /\ UNCHANGED <<gaps, backend, collection, monthly, buckets, outOfOrder,
                   monthLabels, dict, features>>
    /\ UNCHANGED compositeVars

NextSeries ==
    \/ \E p \in Pollutants : LoadCollection(p)
    \/ \E p \in Pollutants : \E month \in months : MonthlyReduce(p, month)
    \/ BuildLabels
    \/ \E p \in Pollutants : BuildDict(p)
    \/ \E p \in Pollutants : MapFeatures(p)
    \/ \E p \in Pollutants : BuildFeatureCollection(p)

Spec == InitSeries /\ [][NextSeries]_vars

\* ------------------------------------------------- series: properties
MonthIndex(d) == d[1] * 12 + d[2]

LabelYear(l) == ParseNat(SubSeq(l, 1, 4))

LabelMonth(l) == ParseNat(SubSeq(l, 6, Len(l)))

Loaded(p) == pc[p] # "start"

AllBuckets(p) == DOMAIN buckets[p] = 0..23

\* the images of the archive of p that cover the region in calendar month i
InMonth(p, i) ==
    {img \in backend[p] :
        img.aoi /\ MonthIndex(img.date) = MonthIndex(<<2019, 1, 1>>) + i}

LabelsAre24From201901To202012 ==
    /\ Len(monthLabels) = 24
    /\ monthLabels[1] = <<"2", "0", "1", "9", "-", "0", "1">>
    /\ monthLabels[24] = <<"2", "0", "2", "0", "-", "1", "2">>

BucketsConsecutive(p) ==
    /\ \A i \in DOMAIN buckets[p] :
          /\ buckets[p][i].start[3] = 1
          /\ buckets[p][i].end[3] = 1
          /\ buckets[p][i].end[2] \in 1..12
          /\ MonthIndex(buckets[p][i].end) = MonthIndex(buckets[p][i].start) + 1
    /\ \A i \in DOMAIN buckets[p] :
          (i + 1) \in DOMAIN buckets[p] =>
              buckets[p][i].end = buckets[p][i + 1].start

C10_BucketInsideWindow ==
    \A p \in Pollutants : \A i \in DOMAIN buckets[p] :
        /\ DateLE(collection[p].start, buckets[p][i].start)
        /\ DateLE(buckets[p][i].end, collection[p].end)
        /\ buckets[p][i].filtered = InMonth(p, i)

C10_Witness ==
    \E p \in Pollutants :
        /\ 23 \in DOMAIN buckets[p]
        /\ \E img \in buckets[p][23].filtered : img.date = <<2020, 12, 31>>

\* C5: a label is the 4-digit year, a hyphen and the 2-digit month; the label
\* of index i has year 2019 + floor(i / 12) and month (i mod 12) + 1;
\* (2019, 12) gives "2019-12" and (2020, 1) gives "2020-01".
C5_LabelFormat ==
    monthLabels # <<>> =>
        /\ \A j \in 1..Len(monthLabels) :
              /\ Len(monthLabels[j]) = 7
              /\ monthLabels[j][5] = "-"
              /\ \A k \in {1, 2, 3, 4, 6, 7} : IsDigit(monthLabels[j][k])
              /\ LabelYear(monthLabels[j]) = 2019 + ((j - 1) \div 12)
              /\ LabelMonth(monthLabels[j]) = ((j - 1) % 12) + 1
        /\ monthLabels[12] = <<"2", "0", "1", "9", "-", "1", "2">>
        /\ monthLabels[13] = <<"2", "0", "2", "0", "-", "0", "1">>

C5_Witness == Len(monthLabels) >= 13 /\ monthLabels[13][6] = "0"

\* C3: a finished series holds one sample per bucket, in chronological
\* order, the i-th sample carrying the label of the calendar month of the
\* i-th bucket and the value reduced over that bucket, whatever the order in
\* which the reductions completed and after the dictionary round trip.
C3_SeriesOrdered ==
    \A p \in Pollutants : pc[p] = "done" =>
        /\ Len(featureCollection[p]) = 24
        /\ \A j \in 1..Len(featureCollection[p]) :
              LET f == featureCollection[p][j]
              IN /\ f.prop = p
                 /\ (j - 1) \in DOMAIN buckets[p]
                 /\ LabelYear(f.month) = buckets[p][j - 1].start[1]
                 /\ LabelMonth(f.month) = buckets[p][j - 1].start[2]
                 /\ f.value = monthly[p][j - 1]
        /\ \A j, k \in 1..Len(featureCollection[p]) :
              j < k => DateLT(buckets[p][j - 1].start, buckets[p][k - 1].start)

C3_Witness ==
    \E p \in Pollutants :
        /\ pc[p] = "done"
        /\ outOfOrder[p]
        /\ \E j \in 1..24 : featureCollection[p][j].value.isNull

\* C4: a bucket without imagery yields a null sample that is still in the
\* series handed to the chart, with its label; the series has one sample per
\* bucket.
C4_NullPreserved ==
    \A p \in Pollutants : pc[p] \in {"done", "error"} =>
        /\ Len(featureCollection[p]) = 24
        /\ \A i \in 0..23 :
              (\E kind \in GapKinds : <<p, i, kind>> \in gaps) =>
                  /\ featureCollection[p][i + 1].value = Null
                  /\ LabelYear(featureCollection[p][i + 1].month) = 2019 + (i \div 12)
                  /\ LabelMonth(featureCollection[p][i + 1].month) = (i % 12) + 1

\* C7: a bucket without imagery never aborts the series, and every other
\* bucket's sample is the one it has when no bucket is missing.
C7_Isolated ==
    \A p \in Pollutants :
        /\ pc[p] # "error"
        /\ pc[p] = "done" =>
              \A i \in 0..23 :
                  (\A kind \in GapKinds : <<p, i, kind>> \notin gaps) =>
                      /\ featureCollection[p][i + 1].value =
                            Rat(2 * Base(p) + 4 * i + 4, 2)
                      /\ LabelMonth(featureCollection[p][i + 1].month) = (i % 12) + 1

\* ===================================================== period composites
\* ------------------------------------------------------ decimal arithmetic
\* a decimal number w + f / 10^9 with 0 <= f < 10^9
One == 10 ^ 9

Fx(w, f) == [w |-> w, f |-> f]

FxLess(a, b) == a.w < b.w \/ (a.w = b.w /\ a.f < b.f)

\* Image.add(constant)
add(a, b) == Fx(a.w + b.w + ((a.f + b.f) \div One), (a.f + b.f) % One)

\* Image.multiply(scale8 / 10^8) of an integer digital number
multiply(dn, scale8) ==
    LET hi == dn.w \div 100
        lo == dn.w % 100
        th == hi * scale8
        r  == (th % (10 ^ 6)) * 100 + lo * scale8
    IN Fx((th \div (10 ^ 6)) + (r \div (10 ^ 8)), (r % (10 ^ 8)) * 10)

\* the mean of two decimals whose last digit is 0
Half(a, b) ==
    LET w == a.w + b.w
        f == a.f + b.f
    IN IF w % 2 = 0 THEN add(Fx(w \div 2, 0), Fx(0, f \div 2))
       ELSE add(Fx((w - 1) \div 2, One \div 2), Fx(0, f \div 2))

OpticalScale == 2750
OpticalOffset == Fx(-1, 8 * (10 ^ 8))
ThermalScale == 341802
ThermalOffset == Fx(149, 0)
CloudCoverLimit == 30

\* ------------------------------------------------------------- band names
SR_B2 == <<"S", "R", "_", "B", "2">>

SR_B3 == <<"S", "R", "_", "B", "3">>

SR_B4 == <<"S", "R", "_", "B", "4">>

SR_B6 == <<"S", "R", "_", "B", "6">>

SR_B7 == <<"S", "R", "_", "B", "7">>

SR_QA_AEROSOL == <<"S", "R", "_", "Q", "A", "_", "A", "E", "R", "O", "S", "O", "L">>

ST_B10 == <<"S", "T", "_", "B", "1", "0">>

ST_QA == <<"S", "T", "_", "Q", "A">>

QA_PIXEL == <<"Q", "A", "_", "P", "I", "X", "E", "L">>

StartsWith(name, prefix) ==
    Len(name) >= Len(prefix) /\ SubSeq(name, 1, Len(prefix)) = prefix

\* the band names the pattern 'SR_B.' matches
MatchesOptical(name) ==
    Len(name) = 5 /\ StartsWith(name, <<"S", "R", "_", "B">>)

\* the band names the pattern 'ST_B.*' matches
MatchesThermal(name) == StartsWith(name, <<"S", "T", "_", "B">>)

\* ------------------------------------------------------------ the archives
ScalarCollections == {"S5P_NRTI_L3_CO", "S5P_NRTI_L3_NO2", "S5P_OFFL_L3_AER_AI",
                      "MOD14A1"}

\* the band a composite selects, and a band of the same collection it drops
Selected(c) ==
    CASE c = "S5P_NRTI_L3_CO" -> "CO_column_number_density"
      [] c = "S5P_NRTI_L3_NO2" -> "NO2_column_number_density"
      [] c = "S5P_OFFL_L3_AER_AI" -> "absorbing_aerosol_index"
      [] c = "MOD14A1" -> "MaxFRP"

Other(c) == IF c = "MOD14A1" THEN "FireMask" ELSE "sensor_altitude"

\* overpass dates around the two windows, and the pixel of each over the
\* region (0 on the day after the MODIS fire went out)
ScalarDates == {<<2019, 12, 1>>, <<2019, 12, 14>>, <<2019, 12, 15>>,
                <<2020, 1, 9>>, <<2020, 1, 10>>}

Pixel(c, d) ==
    LET k == CASE d = <<2019, 12, 1>> -> 31
               [] d = <<2019, 12, 14>> -> 2
               [] d = <<2019, 12, 15>> -> 5
               [] d = <<2020, 1, 9>> -> 12
               [] d = <<2020, 1, 10>> -> 64
    IN IF c = "MOD14A1" /\ d = <<2020, 1, 9>> THEN 0 ELSE k

ScalarImage(c, d) ==
    [date |-> d, aoi |-> TRUE,
     bands |-> [b \in {Selected(c), Other(c)} |->
                   IF b = Selected(c) THEN Pixel(c, d) ELSE 1000]]

\* Landsat 8 scenes: date, footprint, CLOUD_COVER, optical and thermal DN
LandsatScenes ==
    {<<<<2019, 12, 15>>, TRUE, 10, 20000, 44000>>,
     <<<<2019, 12, 28>>, TRUE, 29, 7273, 0>>,
     <<<<2020, 1, 9>>, TRUE, 0, 65535, 65535>>,
     <<<<2020, 1, 5>>, TRUE, 30, 30000, 40000>>,
     <<<<2020, 1, 10>>, TRUE, 5, 10000, 30000>>}

LandsatBands == {SR_B2, SR_B3, SR_B4, SR_B6, SR_B7, SR_QA_AEROSOL, ST_B10,
                 ST_QA, QA_PIXEL}

LandsatImage(sc) ==
    [date |-> sc[1], aoi |-> sc[2], cloud |-> sc[3],
     bands |-> [b \in LandsatBands |->
                   IF b \in {SR_B2, SR_B3, SR_B4, SR_B6, SR_B7} THEN Fx(sc[4], 0)
                   ELSE IF b = ST_B10 THEN Fx(sc[5], 0)
                   ELSE IF b = SR_QA_AEROSOL THEN Fx(96, 0)
                   ELSE IF b = ST_QA THEN Fx(300, 0)
                   ELSE Fx(21824, 0)]]

\* ------------------------------------------------- composites: primitives
\* ImageCollection.select(band)
select(images, band) ==
    {[img EXCEPT !.bands = [b \in {band} \cap DOMAIN img.bands |-> img.bands[b]]] :
        img \in images}

\* ImageCollection.filterMetadata('CLOUD_COVER', 'LESS_THAN', limit)
filterMetadata(images, limit) == {img \in images : img.cloud < limit}

\* the bands every image of a collection has (none for an empty collection)
CommonBands(images) ==
    IF images = {} THEN {}
    ELSE {b \in UNION {DOMAIN img.bands : img \in images} :
             \A img \in images : b \in DOMAIN img.bands}

RECURSIVE SumBand(_, _)
SumBand(images, b) ==
    IF images = {} THEN 0
    ELSE LET x == CHOOSE y \in images : TRUE
         IN x.bands[b] + SumBand(images \ {x}, b)

\* ImageCollection.mean()
mean(images) ==
    [b \in CommonBands(images) |-> Rat(SumBand(images, b), Cardinality(images))]

\* ImageCollection.max()
max(images) ==
    [b \in CommonBands(images) |->
        Rat(CHOOSE v \in {img.bands[b] : img \in images} :
                \A img \in images : img.bands[b] <= v, 1)]

RECURSIVE SortFx(_)
\* the pixels of a band over the stack, one per image, in ascending order
SortFx(S) ==
    IF S = {} THEN <<>>
    ELSE LET x == CHOOSE y \in S : \A z \in S : ~FxLess(z[2], y[2])
         IN <<x[2]>> \o SortFx(S \ {x})

MedianOf(sorted) ==
    LET n == Len(sorted)
    IN IF n % 2 = 1 THEN sorted[(n + 1) \div 2]
       ELSE Half(sorted[n \div 2], sorted[(n \div 2) + 1])

\* ImageCollection.median(): the middle pixel, the mean of the two middle
\* pixels for an even number of images
median(images) ==
    [b \in CommonBands(images) |->
        MedianOf(SortFx({<<img.date, img.bands[b]>> : img \in images}))]

maxFx(images) ==
    [b \in CommonBands(images) |->
        CHOOSE v \in {img.bands[b] : img \in images} :
            \A img \in images : ~FxLess(v, img.bands[b])]

addBands_NoOverwrite(bands, src) ==
    [b \in DOMAIN bands \cup DOMAIN src |->
        IF b \in DOMAIN bands THEN bands[b] ELSE src[b]]

\* Image.addBands(src, null, true): bands of the same name are replaced
addBands(bands, src) ==
    [b \in DOMAIN bands \cup DOMAIN src |->
        IF b \in DOMAIN src THEN src[b] ELSE bands[b]]

\* function applyScaleFactors(image)
applyScaleFactors(image) ==
    LET opticalBands ==
            [b \in {x \in DOMAIN image.bands : MatchesOptical(x)} |->
                add(multiply(image.bands[b], OpticalScale), OpticalOffset)]
        thermalBands ==
            [b \in {x \in DOMAIN image.bands : MatchesThermal(x)} |->
                add(multiply(image.bands[b], ThermalScale), ThermalOffset)]
    IN [image EXCEPT !.bands = addBands(addBands(image.bands, opticalBands),
                                        thermalBands)]

\* a temporal composite: what was reduced, how, and the resulting image
Composite(id, reducer, stack, image) ==
    [collection |-> id, reducer |-> reducer, stack |-> stack, image |-> image,
     clipped |-> FALSE]

\* Image.clip(roi)
clip(c) == [c EXCEPT !.clipped = TRUE]

\* ---------------------------------------------- composites: the five chains
collection_CO_fire ==
    LET stack == filterDate(filterBounds(
                     select(fire["S5P_NRTI_L3_CO"], "CO_column_number_density")),
                     ParseDate(fireStart), ParseDate(fireEnd))
    IN Composite("S5P_NRTI_L3_CO", "mean", stack, mean(stack))

collection_NO2_fire ==
    LET stack == filterDate(filterBounds(
                     select(fire["S5P_NRTI_L3_NO2"], "NO2_column_number_density")),
                     ParseDate(fireStart), ParseDate(fireEnd))
    IN Composite("S5P_NRTI_L3_NO2", "mean", stack, mean(stack))

AerosolStart == <<"2", "0", "1", "9", "-", "1", "2", "-", "0", "1">>

sentinel5p_aer ==
    LET stack == filterBounds(filterDate(
                     select(fire["S5P_OFFL_L3_AER_AI"], "absorbing_aerosol_index"),
                     ParseDate(AerosolStart), ParseDate(fireEnd)))
    IN Composite("S5P_OFFL_L3_AER_AI", "mean", stack, mean(stack))

landsatComposite_Max(stack) ==
    Composite("LANDSAT_LC08_C02_T1_L2", "max", stack, maxFx(stack))

\* landsatFireScaled.median()
landsatComposite(stack) ==
    Composite("LANDSAT_LC08_C02_T1_L2", "median", stack, median(stack))

modisFire_Mean ==
    LET stack == filterBounds(select(
                     filterDate(fire["MOD14A1"], ParseDate(fireStart),
                                ParseDate(fireEnd)), "MaxFRP"))
    IN Composite("MOD14A1", "mean", stack, mean(stack))

modisFire ==
    LET stack == filterBounds(select(
                     filterDate(fire["MOD14A1"], ParseDate(fireStart),
                                ParseDate(fireEnd)), "MaxFRP"))
    IN Composite("MOD14A1", "max", stack, max(stack))

\* Image.gt(0)
gt0(c) == [c EXCEPT !.image = [b \in DOMAIN c.image |->
                                  Rat(IF c.image[b].num > 0 THEN 1 ELSE 0, 1)]]

\* Map.addLayer(image, {bands: ...}, name, shown)
Layer(c, bands, name, shown) ==
    [name |-> name, composite |-> c, bands |-> bands, shown |-> shown]

\* ---------------------------------------------------- composites: actions
\* the series part of the script is not run
SeriesIdle ==
    /\ gaps = {}
    /\ backend = Empty
    /\ pc = [p \in Pollutants |-> "idle"]
    /\ collection = [p \in Pollutants |-> NoCollection]
    /\ monthly = [p \in Pollutants |-> Empty]
    /\ buckets = [p \in Pollutants |-> Empty]
    /\ outOfOrder = [p \in Pollutants |-> FALSE]
    /\ monthLabels = <<>>
    /\ dict = [p \in Pollutants |-> Empty]
    /\ features = [p \in Pollutants |-> Empty]
    /\ featureCollection = [p \in Pollutants |-> <<>>]

InitComposite ==
    /\ \E present \in SUBSET ScalarDates :
          fire = [c \in ScalarCollections |->
                     {ScalarImage(c, d) : d \in present}]
    /\ \E scenes \in SUBSET LandsatScenes :
          l8 = {LandsatImage(sc) : sc \in scenes}
    /\ cpc = "part3"
    /\ composites = Empty
    /\ landsatFire = {}
    /\ landsatFireScaled = {}
    /\ layers = <<>>
    /\ printed = <<>>
    /\ SeriesIdle

Put(f, k, v) == [x \in DOMAIN f \cup {k} |-> IF x = k THEN v ELSE f[x]]

\* part 3: collection_CO_fire, clip_CO, Map.addLayer
AddCOLayer ==
    /\ cpc = "part3"
    /\ composites' = Put(composites, "collection_CO_fire", collection_CO_fire)
    /\ layers' = Append(layers, Layer(clip(collection_CO_fire), {},
                                      "S5P CO (Fire Period)", TRUE))
    /\ cpc' = "part4"
    /\ UNCHANGED <<fire, l8, landsatFire, landsatFireScaled, printed>>
    /\ UNCHANGED seriesVars

\* part 4: collection_NO2_fire, clip_NO2, Map.addLayer
AddNO2Layer ==
    /\ cpc = "part4"
    /\ composites' = Put(composites, "collection_NO2_fire", collection_NO2_fire)
    /\ layers' = Append(layers, Layer(clip(collection_NO2_fire), {},
                                      "S5P NO2 (Fire Period)", FALSE))
    /\ cpc' = "part5"
    /\ UNCHANGED <<fire, l8, landsatFire, landsatFireScaled, printed>>
    /\ UNCHANGED seriesVars

\* part 5: sentinel5p_aer, sent_aer, Map.addLayer
AddAerosolLayer ==
    /\ cpc = "part5"
    /\ composites' = Put(composites, "sentinel5p_aer", sentinel5p_aer)
    /\ layers' = Append(layers, Layer(clip(sentinel5p_aer), {},
                                      "S5P Aerosol Index", TRUE))
    /\ cpc' = "part6"
    /\ UNCHANGED <<fire, l8, landsatFire, landsatFireScaled, printed>>
    /\ UNCHANGED seriesVars

\* part 6: landsatFire and landsatFireScaled
ScaleLandsat ==
    /\ cpc = "part6"
    /\ landsatFire' = filterMetadata(filterBounds(
                          filterDate(l8, ParseDate(fireStart), ParseDate(fireEnd))),
                          CloudCoverLimit)
    /\ landsatFireScaled' = {applyScaleFactors(img) : img \in landsatFire'}
    /\ cpc' = "part6_rgb"
    /\ UNCHANGED <<fire, l8, composites, layers, printed>>
    /\ UNCHANGED seriesVars

\* part 6: Map.addLayer(landsatFireScaled.median().clip(roi), ...), twice
AddLandsatLayer(at, bands, name, shown, next) ==
    /\ cpc = at
    /\ composites' = Put(composites, name, landsatComposite(landsatFireScaled))
    /\ layers' = Append(layers, Layer(clip(landsatComposite(landsatFireScaled)),
                                      bands, name, shown))
    /\ cpc' = next
    /\ UNCHANGED <<fire, l8, landsatFire, landsatFireScaled, printed>>
    /\ UNCHANGED seriesVars

AddLandsatRGB ==
    AddLandsatLayer("part6_rgb", {SR_B4, SR_B3, SR_B2}, "Landsat 8 RGB", FALSE,
                    "part6_false")

AddLandsatFalseColor ==
    AddLandsatLayer("part6_false", {SR_B7, SR_B6, SR_B4},
                    "Landsat 8 False Color (Fire)", TRUE, "part6_print")

\* print('Landsat 8 Image Count:', landsatFire.size())
PrintLandsatCount ==
    /\ cpc = "part6_print"
    /\ printed' = Append(printed, Cardinality(landsatFire))
    /\ cpc' = "part7"
    /\ UNCHANGED <<fire, l8, composites, landsatFire, landsatFireScaled, layers>>
    /\ UNCHANGED seriesVars

\* part 7: modisFire, modisFire_roi and the fire points layer
AddFirePointsLayer ==
    /\ cpc = "part7"
    /\ composites' = Put(composites, "modisFire", modisFire)
    /\ layers' = Append(layers, Layer(gt0(clip(modisFire)), {},
                                      "MODIS Fire Points", TRUE))
    /\ cpc' = "part7_frp"
    /\ UNCHANGED <<fire, l8, landsatFire, landsatFireScaled, printed>>
    /\ UNCHANGED seriesVars

\* part 7: the fire radiative power layer
AddFRPLayer ==
    /\ cpc = "part7_frp"
    /\ layers' = Append(layers, Layer(clip(composites["modisFire"]), {},
                                      "MODIS Fire Radiative Power", FALSE))
    /\ cpc' = "done"
    /\ UNCHANGED <<fire, l8, composites, landsatFire, landsatFireScaled, printed>>
    /\ UNCHANGED seriesVars

NextComposite ==
    \/ AddCOLayer
    \/ AddNO2Layer
    \/ AddAerosolLayer
    \/ ScaleLandsat
    \/ AddLandsatRGB
    \/ AddLandsatFalseColor
    \/ PrintLandsatCount
    \/ AddFirePointsLayer
    \/ AddFRPLayer

SpecComposite == InitComposite /\ [][NextComposite]_vars

\* ------------------------------------------------ composites: properties
Landsat == "LANDSAT_LC08_C02_T1_L2"

\* reflectance of an optical digital number: dn * 0.0000275 - 0.2
ExpectedOptical(dn) ==
    CASE dn = 20000 -> Fx(0, 350000000)
      [] dn = 7273 -> Fx(0, 7500)
      [] dn = 65535 -> Fx(1, 602212500)
      [] dn = 30000 -> Fx(0, 625000000)
      [] dn = 10000 -> Fx(0, 75000000)

\* temperature of a thermal digital number: dn * 0.00341802 + 149.0
ExpectedThermal(dn) ==
    CASE dn = 44000 -> Fx(299, 392880000)
      [] dn = 0 -> Fx(149, 0)
      [] dn = 65535 -> Fx(372, 999940700)
      [] dn = 40000 -> Fx(285, 720800000)
      [] dn = 30000 -> Fx(251, 540600000)

OpticalNames == {SR_B2, SR_B3, SR_B4, SR_B6, SR_B7}

ThermalNames == {ST_B10}

Rescaled(raw, scaled) ==
    /\ DOMAIN scaled.bands = DOMAIN raw.bands
    /\ \A b \in DOMAIN raw.bands :
          scaled.bands[b] =
              IF b \in OpticalNames THEN ExpectedOptical(raw.bands[b].w)
              ELSE IF b \in ThermalNames THEN ExpectedThermal(raw.bands[b].w)
              ELSE raw.bands[b]

\* C8: every image is rescaled before the temporal composite, by band group:
\* SR_B* to dn * 0.0000275 - 0.2, ST_B* to dn * 0.00341802 + 149.0, the other
\* bands untouched, the rescaled bands replacing the raw ones; an optical
\* digital number of 20000 becomes 0.35.
C8_RescaleBeforeComposite ==
    /\ cpc \notin {"idle", "part3", "part4", "part5", "part6"} =>
          /\ Cardinality(landsatFireScaled) = Cardinality(landsatFire)
          /\ \A raw \in landsatFire :
                \E scaled \in landsatFireScaled :
                    scaled.date = raw.date /\ Rescaled(raw, scaled)
    /\ \A name \in DOMAIN composites :
          composites[name].collection = Landsat =>
              composites[name].stack = landsatFireScaled
    /\ \A scaled \in landsatFireScaled : \A raw \in landsatFire :
          (scaled.date = raw.date /\ raw.bands[SR_B4] = Fx(20000, 0)) =>
              scaled.bands[SR_B4] = Fx(0, 350000000)

C8_Witness ==
    /\ cpc = "done"
    /\ Cardinality(landsatFireScaled) = 3
    /\ \E scaled \in landsatFireScaled :
          /\ scaled.bands[SR_B4] = Fx(0, 350000000)
          /\ scaled.bands[ST_B10] = Fx(299, 392880000)
    /\ \E i \in 1..Len(layers) :
          /\ layers[i].composite.collection = Landsat
          /\ layers[i].composite.image[SR_B4] = Fx(0, 350000000)

RECURSIVE FxSum(_, _)
FxSum(images, b) ==
    IF images = {} THEN Fx(0, 0)
    ELSE LET x == CHOOSE y \in images : TRUE
         IN add(x.bands[b], FxSum(images \ {x}, b))

RECURSIVE FxTimes(_, _)
FxTimes(n, x) == IF n = 0 THEN Fx(0, 0) ELSE add(x, FxTimes(n - 1, x))

IsFx(c) == c.collection = Landsat

\* the image of composite c is the pixel-wise mean of its stack
IsMean(c) ==
    /\ c.reducer = "mean"
    /\ DOMAIN c.image = CommonBands(c.stack)
    /\ \A b \in DOMAIN c.image :
          IF IsFx(c)
          THEN FxTimes(Cardinality(c.stack), c.image[b]) = FxSum(c.stack, b)
          ELSE c.image[b].num * Cardinality(c.stack) =
                  c.image[b].den * SumBand(c.stack, b)

\* the image of composite c is the pixel-wise maximum of its stack
IsMax(c) ==
    /\ c.reducer = "max"
    /\ DOMAIN c.image = CommonBands(c.stack)
    /\ \A b \in DOMAIN c.image :
          /\ c.image[b].den = 1
          /\ \E img \in c.stack : img.bands[b] = c.image[b].num
          /\ \A img \in c.stack : img.bands[b] <= c.image[b].num

\* the image of composite c is the pixel-wise median of its stack
IsMedian(c) ==
    /\ c.reducer = "median"
    /\ DOMAIN c.image = CommonBands(c.stack)
    /\ \A b \in DOMAIN c.image :
          LET v == c.image[b]
              n == Cardinality(c.stack)
          IN /\ 2 * Cardinality({img \in c.stack : FxLess(img.bands[b], v)}) <= n
             /\ 2 * Cardinality({img \in c.stack : FxLess(v, img.bands[b])}) <= n
             /\ n % 2 = 1 => \E img \in c.stack : img.bands[b] = v
             /\ n % 2 = 0 => \E x, y \in c.stack :
                                 /\ x # y
                                 /\ add(v, v) = add(x.bands[b], y.bands[b])

\* C6 as stated: mean for the trace gases, the aerosol index and the
\* multispectral composites, max for the fire radiative power.
C6_MeanExceptFRP ==
    \A name \in DOMAIN composites :
        IF composites[name].collection = "MOD14A1"
        THEN IsMax(composites[name])
        ELSE IsMean(composites[name])

\* C6 amended: every composite uses the temporal mean for the trace-gas
\* columns and the aerosol index, the temporal median for the multispectral
\* composites and the temporal max for the fire radiative power.
C6_ReducerPerKind ==
    \A name \in DOMAIN composites :
        CASE composites[name].collection = "MOD14A1" -> IsMax(composites[name])
          [] composites[name].collection = Landsat -> IsMedian(composites[name])
          [] OTHER -> IsMean(composites[name])

C6_Witness ==
    /\ cpc = "done"
    /\ DOMAIN composites = {"collection_CO_fire", "collection_NO2_fire",
                            "sentinel5p_aer", "Landsat 8 RGB",
                            "Landsat 8 False Color (Fire)", "modisFire"}
    /\ Cardinality(composites["collection_CO_fire"].stack) = 2
    /\ Cardinality(composites["sentinel5p_aer"].stack) = 4
    /\ Cardinality(composites["Landsat 8 RGB"].stack) = 3
    /\ composites["modisFire"].image["MaxFRP"] = Rat(5, 1)

\* the reducer the aggregation contract gives each data kind
AggregationContract(id) ==
    IF id = "MOD14A1" THEN "max" ELSE "mean"

\* C9 as stated: a composite whose reducer is not the one of its band's
\* aggregation contract is rejected before any backend call: none is built
\* and displayed.
C9_MismatchRejected ==
    \A i \in 1..Len(layers) :
        layers[i].composite.reducer =
            AggregationContract(layers[i].composite.collection)

\* C9 amended: no composite is rejected for its reducer: each of the seven
\* layers is built with the reducer fixed at its call site (mean, mean, mean,
\* median, median, max, max) and displayed, the two multispectral layers
\* included, whose reducer is not the contract's mean.
C9_NoReducerCheck ==
    /\ \A i \in 1..Len(layers) :
          /\ layers[i].composite.clipped
          /\ layers[i].composite.reducer =
                <<"mean", "mean", "mean", "median", "median", "max", "max">>[i]
          /\ DOMAIN layers[i].composite.image =
                CommonBands(layers[i].composite.stack)
    /\ cpc = "done" => Len(layers) = 7

C9_Witness ==
    /\ cpc = "done"
    /\ Len(layers) = 7
    /\ \E i \in 1..Len(layers) :
          /\ layers[i].composite.reducer #
                AggregationContract(layers[i].composite.collection)
          /\ layers[i].composite.stack # {}
          /\ layers[i].bands \subseteq DOMAIN layers[i].composite.image

====
